---- MODULE Spec2Model ----
(***************************************************************************)
(* Model of the feature-union example notebook                             *)
(* (src/_posts/scikit/feature-union/feature-union.ipynb): the three        *)
(* transformers the notebook defines (ItemSelector, TextStats,             *)
(* SubjectBodyExtractor) and the pipeline that wires them together.        *)
(*                                                                         *)
(* A Python string is a sequence of one-character strings.                 *)
(***************************************************************************)
EXTENDS Integers, Sequences, FiniteSets, TLC

VARIABLES
    pc,        \* position inside the operation under way
    posts,     \* SubjectBodyExtractor.transform / TextStats.transform argument
    features,  \* the record array built by SubjectBodyExtractor.transform
    i,         \* enumerate() index of the document being split (0-based)
    headers,   \* text before the first blank line of the current document
    bod,       \* body of the current document
    sub,       \* subject of the current document
    lines,     \* headers.split('\n')
    k,         \* 1-based position of the header line under inspection
    ret,       \* value returned (or failure raised) by the operation
    key,       \* ItemSelector.key
    data_dict, \* ItemSelector.transform argument
    X,         \* the Field Batch handed to the FeatureUnion
    tlist,     \* FeatureUnion.transformer_list
    weights,   \* FeatureUnion.transformer_weights (tenths)
    cols,      \* number of columns each sub-pipeline's vectorizer yields
    subpc,     \* position of each sub-pipeline
    subdata,   \* each sub-pipeline's current data
    finished,  \* sub-pipelines in the order they completed
    union_out, \* what the FeatureUnion returned or raised
    Xt,        \* data passed from one step of the outer pipeline to the next
    step       \* number of outer pipeline steps completed

sbeVars == <<posts, features, i, headers, bod, sub, lines, k>>
selVars == <<key, data_dict>>
unionVars == <<X, tlist, weights, cols, subpc, subdata, finished, union_out>>
pipeVars == <<Xt, step>>
vars == <<pc, ret, sbeVars, selVars, unionVars, pipeVars>>

-----------------------------------------------------------------------------
(* Bounds of the model.                                                    *)

\* a single document is a concatenation of at most MaxPieces pieces
MaxPieces == 4
\* documents of a multi-document batch have at most MaxBatchPieces pieces
MaxBatchPieces == 1
\* a batch has at most MaxBatch documents
MaxBatch == 2

-----------------------------------------------------------------------------
(* Python values and string primitives.                                    *)

EmptyStr == << >>
NL == <<"\n">>
BlankLine == <<"\n", "\n">>
\* an unset slot of an object-dtype array
None == <<"None">>

Range(s) == {s[j] : j \in 1..Len(s)}

\* str.find: 1-based position of the first occurrence of sep, 0 if none
Find(text, sep) ==
    LET hits == {p \in 1..(Len(text) - Len(sep) + 1) :
                    SubSeq(text, p, p + Len(sep) - 1) = sep}
    IN  IF hits = {} THEN 0
        ELSE CHOOSE p \in hits : \A q \in hits : p <= q

\* str.rfind: position of the last occurrence
RFind(text, sep) ==
    LET hits == {p \in 1..(Len(text) - Len(sep) + 1) :
                    SubSeq(text, p, p + Len(sep) - 1) = sep}
    IN  IF hits = {} THEN 0
        ELSE CHOOSE p \in hits : \A q \in hits : p >= q

\* str.rpartition, as a mis-split at the last separator would behave
RPartition(text, sep) ==
    LET p == RFind(text, sep)
    IN  IF p = 0 THEN <<text, EmptyStr, EmptyStr>>
        ELSE <<SubSeq(text, 1, p - 1), sep,
               SubSeq(text, p + Len(sep), Len(text))>>

\* str.partition(sep): (head, sep, tail) around the first sep, or
\* (text, '', '') when sep does not occur
Partition(text, sep) ==
    LET p == Find(text, sep)
    IN  IF p = 0 THEN <<text, EmptyStr, EmptyStr>>
        ELSE <<SubSeq(text, 1, p - 1), sep,
               SubSeq(text, p + Len(sep), Len(text))>>

\* str.split(c) for a one-character separator: the pieces between
\* consecutive separators, never an empty list, '' gives ['']
Split(text, c) ==
    LET seps == {p \in 1..Len(text) : text[p] = c}
        cut(j) == IF j = 0 THEN 0
                  ELSE IF j > Cardinality(seps) THEN Len(text) + 1
                  ELSE CHOOSE p \in seps : Cardinality({q \in seps : q < p}) = j - 1
    IN  [j \in 1..(Cardinality(seps) + 1) |->
            SubSeq(text, cut(j - 1) + 1, cut(j) - 1)]

\* str.startswith
StartsWith(line, p) ==
    /\ Len(line) >= Len(p)
    /\ SubSeq(line, 1, Len(p)) = p

\* slice that also swallows the blank after the prefix
SliceAfterBlank(line, n) ==
    IF Len(line) > n /\ line[n + 1] = " "
    THEN SubSeq(line, n + 2, Len(line))
    ELSE SubSeq(line, n + 1, Len(line))

\* line[n:]
SliceFrom(line, n) == SubSeq(line, n + 1, Len(line))

\* An external text-cleaning utility of sklearn.datasets.twenty_newsgroups.
\* Its code is not part of the notebook: its result is kept as the
\* application term <<name>> \o argument, a pure function of the argument
\* about which nothing else is assumed.
ExternalCall(name, arg) == <<name>> \o arg

strip_newsgroup_footer(text) == ExternalCall("strip_newsgroup_footer", text)
strip_newsgroup_quoting(text) == ExternalCall("strip_newsgroup_quoting", text)

-----------------------------------------------------------------------------
(* Inputs.                                                                 *)

prefix == <<"S", "u", "b", "j", "e", "c", "t", ":">>

Pieces == {prefix, <<"s", "u", "b", "j", "e", "c", "t", ":">>, NL, <<"x">>, <<" ">>}
BatchPieces ==
    {prefix \o <<"x">> \o BlankLine \o <<"x">>, BlankLine \o prefix \o <<"x">>, <<"x">>}

RECURSIVE Concats(_, _)
Concats(ps, n) ==
    IF n = 0 THEN {EmptyStr}
    ELSE LET shorter == Concats(ps, n - 1)
         IN  shorter \cup {d \o p : d \in shorter, p \in ps}

Docs == Concats(Pieces, MaxPieces)
BatchDocs == Concats(BatchPieces, MaxBatchPieces)

Batches ==
    {<<d>> : d \in Docs}
      \cup UNION {[1..n -> BatchDocs] : n \in 0..MaxBatch}

-----------------------------------------------------------------------------
(* SubjectBodyExtractor.transform                                          *)

N == Len(posts)

\* a stale subject left over from the previous document
StaleSub == sub

\* sub = ''
FreshSub == EmptyStr

\* the locals of SubjectBodyExtractor.transform before the call
SBE_Idle ==
    /\ features = [subject |-> << >>, body |-> << >>]
    /\ i = 0
    /\ headers = EmptyStr
    /\ bod = EmptyStr
    /\ sub = EmptyStr
    /\ lines = << >>
    /\ k = 0

\* no ItemSelector is in play
Sel_Idle ==
    /\ key = None
    /\ data_dict = << >>

\* no FeatureUnion is in play
Union_Idle ==
    /\ X = << >>
    /\ tlist = << >>
    /\ weights = << >>
    /\ cols = << >>
    /\ subpc = << >>
    /\ subdata = << >>
    /\ finished = << >>
    /\ union_out = None

\* no outer pipeline is in play
Pipe_Idle ==
    /\ Xt = None
    /\ step = 0

Init ==
    /\ pc = "call"
    /\ posts \in Batches
    /\ ret = None
    /\ SBE_Idle
    /\ Sel_Idle
    /\ Union_Idle
    /\ Pipe_Idle

\* features = np.recarray(shape=(len(posts),), dtype=[subject, body])
SBE_Alloc ==
    /\ pc = "call"
    /\ features' = [subject |-> [j \in 1..N |-> None],
                    body    |-> [j \in 1..N |-> None]]
    /\ i' = 0
    /\ pc' = "for"
    /\ UNCHANGED <<posts, headers, bod, sub, lines, k, ret, selVars, unionVars, pipeVars>>

\* headers, _, bod = text.partition('\n\n'), then the two clean-up calls
SplitHeaders(text) == Partition(text, BlankLine)[1]
SplitBody(text) ==
    strip_newsgroup_quoting(strip_newsgroup_footer(Partition(text, BlankLine)[3]))

\* one pass of "for i, text in enumerate(posts)" up to the header scan
SBE_SplitDocument ==
    /\ pc = "for"
    /\ i < N
    /\ headers' = SplitHeaders(posts[i + 1])
    /\ bod' = SplitBody(posts[i + 1])
    /\ features' = [features EXCEPT !.body[i + 1] = SplitBody(posts[i + 1])]
    /\ sub' = FreshSub
    /\ lines' = Split(SplitHeaders(posts[i + 1]), "\n")
    /\ k' = 1
    /\ pc' = "scan"
    /\ UNCHANGED <<posts, i, ret, selVars, unionVars, pipeVars>>

\* the header scan without its break: a later match overwrites an earlier one
SBE_ScanLineNoBreak ==
    /\ pc = "scan"
    /\ k <= Len(lines)
    /\ sub' = IF StartsWith(lines[k], prefix)
              THEN SliceFrom(lines[k], Len(prefix)) ELSE sub
    /\ k' = k + 1
    /\ UNCHANGED <<pc, posts, features, i, headers, bod, lines, ret, selVars, unionVars, pipeVars>>

\* one pass of "for line in headers.split('\n')"
SBE_ScanLine ==
    /\ pc = "scan"
    /\ k <= Len(lines)
    /\ IF StartsWith(lines[k], prefix)
       THEN /\ sub' = SliceFrom(lines[k], Len(prefix))
            /\ pc' = "store"
            /\ k' = k
       ELSE /\ k' = k + 1
            /\ UNCHANGED <<sub, pc>>
    /\ UNCHANGED <<posts, features, i, headers, bod, lines, ret, selVars, unionVars, pipeVars>>

\* the header scan runs out of lines
SBE_ScanExhausted ==
    /\ pc = "scan"
    /\ k > Len(lines)
    /\ pc' = "store"
    /\ UNCHANGED <<sbeVars, ret, selVars, unionVars, pipeVars>>

\* features['subject'][i] = sub, then on to the next document
SBE_StoreSubject ==
    /\ pc = "store"
    /\ features' = [features EXCEPT !.subject[i + 1] = sub]
    /\ i' = i + 1
    /\ pc' = "for"
    /\ UNCHANGED <<posts, headers, bod, sub, lines, k, ret, selVars, unionVars, pipeVars>>

\* return features
SBE_Return ==
    /\ pc = "for"
    /\ i = N
    /\ ret' = features
    /\ pc' = "done"
    /\ UNCHANGED <<sbeVars, selVars, unionVars, pipeVars>>

Next ==
    \/ SBE_Alloc
    \/ SBE_SplitDocument
    \/ SBE_ScanLine
    \/ SBE_ScanExhausted
    \/ SBE_StoreSubject
    \/ SBE_Return

Spec == Init /\ [][Next]_vars

\* the interpreter keeps executing the call until it returns
FairSpec == Spec /\ WF_vars(Next)

-----------------------------------------------------------------------------
(* TextStats.transform                                                     *)

\* a text is a concatenation of at most MaxStatPieces pieces
MaxStatPieces == 2

HelloWorld == <<"H", "e", "l", "l", "o", ".", " ", "W", "o", "r", "l", "d", ".">>

StatTexts == Concats({<<".">>, <<"x">>, <<" ">>}, MaxStatPieces) \cup {HelloWorld}

StatBatches == UNION {[1..n -> StatTexts] : n \in 0..MaxBatch}

\* a sentence count taken from the pieces between the periods
PiecesCount(text, c) == Len(Split(text, c))

\* str.count(c) for a one-character c, scanning left to right
RECURSIVE StrCount(_, _)
StrCount(text, c) ==
    IF text = EmptyStr THEN 0
    ELSE (IF Head(text) = c THEN 1 ELSE 0) + StrCount(Tail(text), c)

\* len(text)
PyLen(text) == Len(text)

\* the record built for one text
TextStatsRecord(text) ==
    [length |-> PyLen(text), num_sentences |-> StrCount(text, ".")]

StatsInit ==
    /\ pc = "stats_call"
    /\ posts \in StatBatches
    /\ ret = None
    /\ SBE_Idle
    /\ Sel_Idle
    /\ Union_Idle
    /\ Pipe_Idle

\* return [{...} for text in posts]
TS_Transform ==
    /\ pc = "stats_call"
    /\ ret' = [j \in 1..N |-> TextStatsRecord(posts[j])]
    /\ pc' = "stats_done"
    /\ UNCHANGED <<sbeVars, selVars, unionVars, pipeVars>>

StatsNext == TS_Transform

StatsSpec == StatsInit /\ [][StatsNext]_vars

-----------------------------------------------------------------------------
(* ItemSelector                                                            *)

Keys == {"a", "b", "subject", "body", "missing"}

\* the data of the ItemSelector docstring
DocstringData == [a |-> <<1, 5, 2, 5, 2, 8>>, b |-> <<9, 4, 1, 4, 1, 3>>]

FieldValues == {EmptyStr, <<"x">>}

\* mappings from some of the field names to sequences of n values
FieldBatchesOf(n) ==
    UNION {[S -> [1..n -> FieldValues]] : S \in SUBSET {"subject", "body"}}

DataDicts == {DocstringData} \cup UNION {FieldBatchesOf(n) : n \in 0..MaxBatch}

Value(v) == [kind |-> "value", value |-> v]
Raise(e) == [kind |-> "raise", value |-> e]

\* a lookup that answers None for an absent key, as dict.get would
GetItemOrNone(d, kk) == IF kk \in DOMAIN d THEN Value(d[kk]) ELSE Value(None)

\* a lookup that answers an empty sequence for an absent key
GetItemOrEmpty(d, kk) == IF kk \in DOMAIN d THEN Value(d[kk]) ELSE Value(<< >>)

\* return data_dict[self.key]: the stored sequence, or the lookup failure
\* of the subscript (KeyError for a dict, which is what the inputs here are)
ItemSelector_transform(d, kk) ==
    IF kk \in DOMAIN d THEN Value(d[kk]) ELSE Raise(<<"KeyError", kk>>)

SelInit ==
    /\ pc = "sel_new"
    /\ posts = << >>
    /\ ret = None
    /\ SBE_Idle
    /\ Sel_Idle
    /\ Union_Idle
    /\ Pipe_Idle

\* ItemSelector(key=...)
IS_Init ==
    /\ pc = "sel_new"
    /\ \E kk \in Keys : key' = kk
    /\ pc' = "sel_ready"
    /\ UNCHANGED <<ret, data_dict, sbeVars, unionVars, pipeVars>>

\* ItemSelector.transform(data_dict)
IS_Transform ==
    /\ pc = "sel_ready"
    /\ \E d \in DataDicts :
          /\ data_dict' = d
          /\ ret' = ItemSelector_transform(d, key)
    /\ pc' = "sel_done"
    /\ UNCHANGED <<key, sbeVars, unionVars, pipeVars>>

SelNext == IS_Init \/ IS_Transform

SelSpec == SelInit /\ [][SelNext]_vars

-----------------------------------------------------------------------------
(* The pipeline of the notebook and its FeatureUnion.                      *)
(* Numbers of a feature matrix and weights are held in tenths, so that the *)
(* weights 0.8, 0.5 and 1.0 are the integers 8, 5 and 10.                  *)

\* a feature matrix has at most MaxRows rows
MaxRows == 3
\* a sub-pipeline yields at most MaxCols columns
MaxCols == 4

\* the steps of the outer Pipeline, in list order
PipelineSteps == <<"subjectbody", "union", "svc">>

\* a transformer_list whose body statistics ask for a field named 'text'
TransformerListTextKey ==
    << [name |-> "subject",    key |-> "subject", rest |-> <<"tfidf">>],
       [name |-> "body_bow",   key |-> "body",    rest |-> <<"tfidf", "best">>],
       [name |-> "body_stats", key |-> "text",    rest |-> <<"stats", "vect">>] >>

\* transformer_list: each sub-pipeline's name, the key of its ItemSelector
\* and the steps that follow the selector
TransformerList ==
    << [name |-> "subject",    key |-> "subject", rest |-> <<"tfidf">>],
       [name |-> "body_bow",   key |-> "body",    rest |-> <<"tfidf", "best">>],
       [name |-> "body_stats", key |-> "body",    rest |-> <<"stats", "vect">>] >>

\* transformer_weights, in tenths
TransformerWeights == [subject |-> 8, body_bow |-> 5, body_stats |-> 10]

\* a union of two sub-pipelines, the first weighted 0.5, the second unweighted
ExampleList ==
    << [name |-> "first",  key |-> "subject", rest |-> <<"vect">>],
       [name |-> "second", key |-> "body",    rest |-> <<"vect">>] >>
ExampleWeights == [first |-> 5]

\* no weight given for any sub-pipeline
NoWeights == << >>

UnionConfigs ==
    {<<TransformerList, TransformerWeights>>,
     <<TransformerList, NoWeights>>,
     <<ExampleList, ExampleWeights>>}

\* Field Batches of n documents: some of the fields, entry j of field f
\* being the pair <<f, j>>
UnionInputs(n) ==
    {[f \in S |-> [j \in 1..n |-> <<f, j>>]] : S \in SUBSET {"subject", "body"}}

\* the matrix the vectorizing steps of sub-pipeline j yield for n documents:
\* n rows, m columns, every cell different
Mat(n, m, j) == [r \in 1..n |-> [c \in 1..m |-> 100 * j + 10 * r + c]]

\* a weight of zero for a sub-pipeline without a configured weight
WeightOrZero(w, name) == IF name \in DOMAIN w THEN w[name] ELSE 0

\* weight of a sub-pipeline, 1.0 when none is configured
WeightOf(w, name) == IF name \in DOMAIN w THEN w[name] ELSE 10

\* matrix times weight
Scale(M, w) == [r \in 1..Len(M) |-> [c \in 1..Len(M[r]) |-> w * M[r][c]]]

\* the matrices Ms side by side, in the order of Ms; n is the row count
RECURSIVE HStack(_, _)
HStack(Ms, n) ==
    IF Ms = << >> THEN [r \in 1..n |-> << >>]
    ELSE LET rest == HStack(Tail(Ms), n)
         IN  [r \in 1..n |-> Head(Ms)[r] \o rest[r]]

\* sub-pipelines in the order they happened to complete
CompletionOrder == finished

\* sub-pipelines in transformer_list order
AssemblyOrder == [j \in 1..Len(tlist) |-> j]

\* the weighted matrices of the sub-pipelines, side by side
Combined(order) ==
    HStack([q \in 1..Len(order) |->
               Scale(subdata[order[q]], WeightOf(weights, tlist[order[q]].name))],
           IF order = << >> THEN 0 ELSE Len(subdata[order[1]]))

\* the FeatureUnion is handed x under configuration cfg
UnionStart(x, cfg, cs) ==
    /\ X' = x
    /\ tlist' = cfg[1]
    /\ weights' = cfg[2]
    /\ cols' = cs
    /\ subpc' = [j \in 1..Len(cfg[1]) |-> "selector"]
    /\ subdata' = [j \in 1..Len(cfg[1]) |-> None]
    /\ finished' = << >>
    /\ union_out' = None

UnionInit ==
    /\ pc = "union"
    /\ posts = << >>
    /\ ret = None
    /\ SBE_Idle
    /\ Sel_Idle
    /\ Pipe_Idle
    /\ \E n \in 0..MaxRows : X \in UnionInputs(n)
    /\ \E cfg \in UnionConfigs :
          /\ tlist = cfg[1]
          /\ weights = cfg[2]
    /\ cols \in [1..Len(tlist) -> 0..MaxCols]
    /\ subpc = [j \in 1..Len(tlist) |-> "selector"]
    /\ subdata = [j \in 1..Len(tlist) |-> None]
    /\ finished = << >>
    /\ union_out = None

\* sub-pipeline j runs its ItemSelector; a failure ends the whole union
U_Select ==
    /\ pc = "union"
    /\ \E j \in 1..Len(tlist) :
          /\ subpc[j] = "selector"
          /\ IF ItemSelector_transform(X, tlist[j].key).kind = "value"
             THEN /\ subdata' = [subdata EXCEPT
                                    ![j] = ItemSelector_transform(X, tlist[j].key).value]
                  /\ subpc' = [subpc EXCEPT ![j] = "vectorize"]
                  /\ UNCHANGED <<pc, union_out>>
             ELSE /\ union_out' = ItemSelector_transform(X, tlist[j].key)
                  /\ subpc' = [subpc EXCEPT ![j] = "raised"]
                  /\ pc' = "union_raised"
                  /\ UNCHANGED subdata
    /\ UNCHANGED <<ret, sbeVars, selVars, pipeVars, X, tlist, weights, cols, finished>>

\* sub-pipeline j runs the steps after its selector and yields its matrix
U_Vectorize ==
    /\ pc = "union"
    /\ \E j \in 1..Len(tlist) :
          /\ subpc[j] = "vectorize"
          /\ subdata' = [subdata EXCEPT ![j] = Mat(Len(subdata[j]), cols[j], j)]
          /\ subpc' = [subpc EXCEPT ![j] = "finished"]
          /\ finished' = Append(finished, j)
    /\ UNCHANGED <<pc, ret, sbeVars, selVars, pipeVars, X, tlist, weights, cols, union_out>>

\* every sub-pipeline has finished: weight and concatenate
U_Combine ==
    /\ pc = "union"
    /\ \A j \in 1..Len(tlist) : subpc[j] = "finished"
    /\ union_out' = Value(Combined(AssemblyOrder))
    /\ pc' = "union_done"
    /\ UNCHANGED <<ret, sbeVars, selVars, pipeVars, X, tlist, weights, cols, subpc,
                   subdata, finished>>

UnionNext == U_Select \/ U_Vectorize \/ U_Combine

UnionSpec == UnionInit /\ [][UnionNext]_vars

-----------------------------------------------------------------------------
(* The outer Pipeline: each step's output is the next step's input.        *)

\* column counts of the three vectorizers in the end-to-end runs
VectorizerShapes == {<<1, 1, 2>>, <<0, 2, 2>>}

PipelineBatches == UNION {[1..n -> BatchDocs] : n \in 0..MaxBatch}

PipelineInit ==
    /\ pc = "pipeline"
    /\ posts = << >>
    /\ ret = None
    /\ SBE_Idle
    /\ Sel_Idle
    /\ Union_Idle
    /\ Xt \in PipelineBatches
    /\ step = 0

\* the Pipeline hands Xt to its next step
P_Start ==
    /\ pc = "pipeline"
    /\ step < Len(PipelineSteps)
    /\ \/ /\ PipelineSteps[step + 1] = "subjectbody"
          /\ posts' = Xt
          /\ pc' = "call"
          /\ UNCHANGED <<features, i, headers, bod, sub, lines, k, unionVars>>
       \/ /\ PipelineSteps[step + 1] = "union"
          /\ \E cs \in VectorizerShapes :
                UnionStart(Xt, <<TransformerList, TransformerWeights>>, cs)
          /\ pc' = "union"
          /\ UNCHANGED sbeVars
       \/ /\ PipelineSteps[step + 1] = "svc"
          /\ pc' = "svc"
          /\ UNCHANGED <<sbeVars, unionVars>>
    /\ UNCHANGED <<ret, selVars, pipeVars>>

\* a step has returned: its result becomes Xt; a failure ends the pipeline
P_Finish ==
    /\ pc \in {"done", "union_done", "union_raised"}
    /\ IF pc = "union_raised"
       THEN /\ pc' = "pipeline_raised"
            /\ UNCHANGED pipeVars
       ELSE /\ Xt' = IF pc = "done" THEN ret ELSE union_out.value
            /\ step' = step + 1
            /\ pc' = "pipeline"
    /\ UNCHANGED <<ret, sbeVars, selVars, unionVars>>

PipelineNext ==
    \/ P_Start
    \/ SBE_Alloc
    \/ SBE_SplitDocument
    \/ SBE_ScanLine
    \/ SBE_ScanExhausted
    \/ SBE_StoreSubject
    \/ SBE_Return
    \/ U_Select
    \/ U_Vectorize
    \/ U_Combine
    \/ P_Finish

PipelineSpec == PipelineInit /\ [][PipelineNext]_vars

-----------------------------------------------------------------------------
(* What a document's subject and body are, stated position by position on  *)
(* the document itself.                                                    *)

Min(S) == CHOOSE p \in S : \A q \in S : p <= q

\* positions where a blank line (two consecutive newlines) begins
BlankStarts(d) == {p \in 1..(Len(d) - 1) : d[p] = "\n" /\ d[p + 1] = "\n"}

\* last position of the header text
HeaderEnd(d) == IF BlankStarts(d) = {} THEN Len(d) ELSE Min(BlankStarts(d)) - 1

\* the text after the first blank line
RawBody(d) ==
    IF BlankStarts(d) = {} THEN EmptyStr
    ELSE SubSeq(d, Min(BlankStarts(d)) + 2, Len(d))

\* positions where a header line begins
HeaderLineStarts(d) ==
    {s \in 1..(HeaderEnd(d) + 1) : s = 1 \/ d[s - 1] = "\n"}

\* the header line that begins at position s
HeaderLineAt(d, s) ==
    LET stops == {q \in s..HeaderEnd(d) : d[q] = "\n"} \cup {HeaderEnd(d) + 1}
    IN  SubSeq(d, s, Min(stops) - 1)

HeaderLines(d) == {HeaderLineAt(d, s) : s \in HeaderLineStarts(d)}

\* positions where a header line begins with the characters of the prefix
SubjectStarts(d) ==
    {s \in HeaderLineStarts(d) :
        /\ s + Len(prefix) - 1 <= HeaderEnd(d)
        /\ \A c \in 1..Len(prefix) : d[s + c - 1] = prefix[c]}

\* positions anywhere in the document where a line begins with the prefix
AnySubjectStarts(d) ==
    {s \in 1..Len(d) :
        /\ s = 1 \/ d[s - 1] = "\n"
        /\ s + Len(prefix) - 1 <= Len(d)
        /\ \A c \in 1..Len(prefix) : d[s + c - 1] = prefix[c]}

SubjectOf(d) ==
    IF SubjectStarts(d) = {} THEN EmptyStr
    ELSE LET l == HeaderLineAt(d, Min(SubjectStarts(d)))
         IN  SubSeq(l, Len(prefix) + 1, Len(l))

BodyOf(d) == strip_newsgroup_quoting(strip_newsgroup_footer(RawBody(d)))

-----------------------------------------------------------------------------
(* C1: SubjectBodyExtractor.transform returns "subject" and "body"         *)
(* sequences of exactly N entries each, and entry j of each field is the   *)
(* value determined by document j alone, in input order; entries already   *)
(* written keep that value while later documents are processed.            *)
C1_OneEntryPerDocument ==
    /\ pc \in {"for", "scan", "store", "done"} =>
          /\ Len(features.subject) = N
          /\ Len(features.body) = N
          /\ \A j \in 1..i :
                /\ features.subject[j] = SubjectOf(posts[j])
                /\ features.body[j] = BodyOf(posts[j])
    /\ pc = "done" => i = N /\ ret = features

\* a returned batch of two documents, the first with a subject, the second
\* without one
C1_Witness ==
    /\ pc = "done"
    /\ N >= 2
    /\ ret.subject[1] # EmptyStr
    /\ ret.subject[2] = EmptyStr
    /\ ret.body[1] # ret.body[2]

(* C2: the subject is the remainder of a header line that begins with the  *)
(* literal prefix "Subject:", with only the prefix removed (prefix followed *)
(* by the subject gives the line back, a leading space included); when no  *)
(* header line begins with the prefix the subject is the empty string.     *)
C2_SubjectIsLineRemainder ==
    pc = "done" =>
        \A j \in 1..N :
            LET matching == {l \in HeaderLines(posts[j]) : StartsWith(l, prefix)}
            IN  IF matching = {}
                THEN ret.subject[j] = EmptyStr
                ELSE prefix \o ret.subject[j] \in matching

\* the header line "Subject: x" has given the subject " x"
C2_Witness ==
    /\ pc = "done"
    /\ \E j \in 1..N :
          /\ prefix \o <<" ", "x">> \in HeaderLines(posts[j])
          /\ ret.subject[j] = <<" ", "x">>

(* C7: the splitter has no failure: every call of transform reaches its    *)
(* return; each document is cut at its first blank line (header, then   *)
(* "\n\n", then the text handed to the body clean-up); every document gets *)
(* a subject and a body; a document without a blank line gets the clean-up *)
(* of the empty text as body, a document without a "Subject:" header line  *)
(* gets the empty subject.                                                 *)
C7_Degrades ==
    /\ pc \in {"scan", "store"} =>
          LET text == posts[i + 1]
          IN  /\ \A p \in BlankStarts(text) : p > Len(headers)
              /\ IF BlankStarts(text) # {}
                 THEN \E raw \in {SubSeq(text, p, Len(text)) : p \in 1..(Len(text) + 1)} :
                          /\ text = headers \o BlankLine \o raw
                          /\ bod = strip_newsgroup_quoting(strip_newsgroup_footer(raw))
                 ELSE /\ text = headers
                      /\ bod = strip_newsgroup_quoting(strip_newsgroup_footer(EmptyStr))
    /\ pc = "done" =>
          \A j \in 1..N :
              /\ ret.subject[j] # None
              /\ ret.body[j] # None
              /\ Find(posts[j], BlankLine) = 0 =>
                    ret.body[j] = strip_newsgroup_quoting(strip_newsgroup_footer(EmptyStr))
              /\ (\A l \in HeaderLines(posts[j]) : ~StartsWith(l, prefix)) =>
                    ret.subject[j] = EmptyStr

C7_NoErrorConditions == []C7_Degrades /\ <>(pc = "done")

\* a returned batch holding the empty document and a document with neither
\* a blank line nor a subject
C7_Witness ==
    /\ pc = "done"
    /\ \E j \in 1..N : posts[j] = EmptyStr
    /\ \E j \in 1..N :
          /\ posts[j] # EmptyStr
          /\ BlankStarts(posts[j]) = {}
          /\ ret.subject[j] = EmptyStr
          /\ ret.body[j] = strip_newsgroup_quoting(strip_newsgroup_footer(EmptyStr))

(* C10: the subject comes from the earliest header line that begins with   *)
(* "Subject:" exactly (case-sensitive, at the very start of the line); a   *)
(* line beginning with "Subject:" only after the first blank line never    *)
(* becomes the subject, which is then the empty string.                    *)
C10_EarliestHeaderLineOnly ==
    pc = "done" =>
        \A j \in 1..N :
            LET d == posts[j]
            IN  /\ SubjectStarts(d) # {} =>
                      prefix \o ret.subject[j] = HeaderLineAt(d, Min(SubjectStarts(d)))
                /\ SubjectStarts(d) = {} => ret.subject[j] = EmptyStr
                /\ (\A s \in AnySubjectStarts(d) : s > HeaderEnd(d)) =>
                      ret.subject[j] = EmptyStr

\* a returned document with two "Subject:" header lines of different
\* remainders
C10_Witness ==
    /\ pc = "done"
    /\ \E j \in 1..N :
          LET d == posts[j]
          IN  /\ Cardinality(SubjectStarts(d)) >= 2
              /\ \E s \in SubjectStarts(d) :
                    HeaderLineAt(d, s) # prefix \o ret.subject[j]

\* a returned document whose only "Subject:" line lies in the body
C10_BodyOnlyWitness ==
    /\ pc = "done"
    /\ \E j \in 1..N :
          /\ AnySubjectStarts(posts[j]) # {}
          /\ SubjectStarts(posts[j]) = {}
          /\ ret.subject[j] = EmptyStr

-----------------------------------------------------------------------------
(* C3: ItemSelector with key k applied to d returns exactly the sequence   *)
(* stored under k when k is a key of d, and fails with a lookup failure,    *)
(* never a value, when k is absent.                                        *)
C3_SelectorReturnsOrFails ==
    pc = "sel_done" =>
        IF key \in DOMAIN data_dict
        THEN ret.kind = "value" /\ ret.value = data_dict[key]
        ELSE ret.kind = "raise" /\ ret.value[1] = "KeyError"

\* the selector was applied to a non-empty Field Batch lacking its key
C3_Witness ==
    /\ pc = "sel_done"
    /\ DOMAIN data_dict # {}
    /\ key \notin DOMAIN data_dict
    /\ ret.kind = "raise"

\* the docstring example: key 'a' gives data['a']
C3_DocstringWitness ==
    /\ pc = "sel_done"
    /\ key = "a"
    /\ data_dict = DocstringData
    /\ ret = Value(<<1, 5, 2, 5, 2, 8>>)

(* C4: TextStats.transform returns one record per text, in input order,    *)
(* with exactly the entries "length" (number of characters of the text)    *)
(* and "num_sentences" (number of "." characters in the text).             *)
C4_StatsPerText ==
    pc = "stats_done" =>
        /\ Len(ret) = N
        /\ \A j \in 1..N :
              /\ DOMAIN ret[j] = {"length", "num_sentences"}
              /\ ret[j].length = Cardinality(DOMAIN posts[j])
              /\ ret[j].num_sentences =
                    Cardinality({p \in DOMAIN posts[j] : posts[j][p] = "."})

\* "Hello. World." has given length 13 and 2 sentences, next to another text
C4_Witness ==
    /\ pc = "stats_done"
    /\ N >= 2
    /\ posts[2] = HelloWorld
    /\ ret[2] = [length |-> 13, num_sentences |-> 2]
    /\ ret[1] # ret[2]

-----------------------------------------------------------------------------
\* number of columns before the block of sub-pipeline j
RECURSIVE Offset(_, _)
Offset(cs, j) == IF j <= 1 THEN 0 ELSE Offset(cs, j - 1) + cs[j - 1]

\* what running the sub-pipelines one after the other in list order gives
RECURSIVE SequentialRun(_, _)
SequentialRun(j, blocks) ==
    IF j > Len(tlist)
    THEN Value(HStack(blocks, IF blocks = << >> THEN 0 ELSE Len(blocks[1])))
    ELSE IF tlist[j].key \notin DOMAIN X
         THEN Raise(<<"KeyError", tlist[j].key>>)
         ELSE SequentialRun(j + 1,
                  Append(blocks,
                         Scale(Mat(Len(X[tlist[j].key]), cols[j], j),
                               IF tlist[j].name \in DOMAIN weights
                               THEN weights[tlist[j].name] ELSE 10)))

(* C5: the FeatureUnion's result has one row per document and as many      *)
(* columns as its sub-pipelines yield together; the column blocks stand in *)
(* transformer_list order, rows keep their order, and block j is           *)
(* sub-pipeline j's matrix times its weight (1.0 when none is configured). *)
C5_WeightedBlocksInOrder ==
    pc = "union_done" =>
        LET M == union_out.value
            n == Len(X[tlist[1].key])
        IN  /\ union_out.kind = "value"
            /\ Len(M) = n
            /\ \A r \in 1..n :
                  /\ Len(M[r]) = Offset(cols, Len(tlist) + 1)
                  /\ \A j \in 1..Len(tlist) : \A c \in 1..cols[j] :
                        M[r][Offset(cols, j) + c] =
                            (IF tlist[j].name \in DOMAIN weights
                             THEN weights[tlist[j].name] ELSE 10)
                              * Mat(n, cols[j], j)[r][c]

\* shapes (3,2) and (3,4) with weights 0.5 and 1.0 have given shape (3,6)
C5_Witness ==
    /\ pc = "union_done"
    /\ tlist = ExampleList
    /\ weights = ExampleWeights
    /\ cols = <<2, 4>>
    /\ Len(union_out.value) = 3
    /\ Len(union_out.value[1]) = 6
    /\ union_out.value[3][2] = 5 * Mat(3, 2, 1)[3][2]
    /\ union_out.value[3][6] = 10 * Mat(3, 4, 2)[3][4]

(* C6: when a sub-pipeline's selector is given a Field Batch lacking its   *)
(* key, the union fails as a whole: the selector's failure is what the     *)
(* union raises, no matrix is returned, not even from the sub-pipelines    *)
(* that finished, and no sub-pipeline is run again.                        *)
C6_FailsAsAWhole ==
    /\ pc = "union" => union_out = None
    /\ pc \in {"union_done", "union_raised"} =>
          IF \E j \in 1..Len(tlist) : tlist[j].key \notin DOMAIN X
          THEN /\ pc = "union_raised"
               /\ union_out.kind = "raise"
               /\ \E j \in 1..Len(tlist) :
                     /\ tlist[j].key \notin DOMAIN X
                     /\ union_out = Raise(<<"KeyError", tlist[j].key>>)
               /\ Cardinality({j \in 1..Len(tlist) : subpc[j] = "raised"}) = 1
               /\ Len(finished) = Cardinality(Range(finished))
          ELSE /\ pc = "union_done"
               /\ union_out.kind = "value"

\* the union has failed although one of its sub-pipelines had finished
C6_Witness ==
    /\ pc = "union_raised"
    /\ finished # << >>
    /\ union_out.kind = "raise"
    /\ Len(X[tlist[finished[1]].key]) > 0

(* C8: a step of one sub-pipeline changes neither the Field Batch nor the  *)
(* data of another sub-pipeline, and whatever the interleaving of the      *)
(* sub-pipelines, the union's result is the one sequential execution in    *)
(* list order gives.                                                       *)
C8_SameAsSequential ==
    /\ pc = "union_done" => union_out = SequentialRun(1, << >>)
    /\ pc = "union_raised" => SequentialRun(1, << >>).kind = "raise"

C8_NoSharedState ==
    /\ X' = X
    /\ \A j \in 1..Len(tlist) : subpc'[j] = subpc[j] => subdata'[j] = subdata[j]

C8_InterleavingIndependent == []C8_SameAsSequential /\ [][C8_NoSharedState]_vars

\* a union completed by sub-pipelines that finished out of list order
C8_Witness ==
    /\ pc = "union_done"
    /\ Len(tlist) = 3
    /\ finished = <<3, 1, 2>>
    /\ Len(union_out.value) >= 2
    /\ \A j \in 1..3 : cols[j] > 0

(* C9: in the end-to-end pipeline the steps run in the order splitter,     *)
(* union, classifier; the union has the three sub-pipelines "subject",     *)
(* "body_bow", "body_stats", in that order, with weights 0.8, 0.5 and 1.0; *)
(* "subject" selects the "subject" field, the two others the "body" field; *)
(* every selected key is a field of the splitter's output and no lookup    *)
(* failure occurs.                                                         *)
C9_EndToEndWiring ==
    /\ pc \notin {"union_raised", "pipeline_raised"}
    /\ pc \in {"call", "for", "scan", "store", "done"} => step = 0
    /\ pc \in {"union", "union_done"} =>
          /\ step = 1
          /\ X = ret
          /\ DOMAIN X = {"subject", "body"}
          /\ [j \in 1..Len(tlist) |-> tlist[j].name] =
                <<"subject", "body_bow", "body_stats">>
          /\ [j \in 1..Len(tlist) |-> tlist[j].key] = <<"subject", "body", "body">>
          /\ [j \in 1..Len(tlist) |-> weights[tlist[j].name]] = <<8, 5, 10>>
          /\ \A j \in 1..Len(tlist) : tlist[j].key \in DOMAIN X
    /\ pc = "svc" =>
          /\ step = 2
          /\ union_out.kind = "value"
          /\ Xt = union_out.value
          /\ Len(Xt) = Len(posts)

\* the classifier has been handed the features of a batch of two documents
C9_Witness ==
    /\ pc = "svc"
    /\ Len(posts) = 2
    /\ Len(Xt) = 2
    /\ finished # <<1, 2, 3>>

====
